---- MODULE Spec2Model ----
(***************************************************************************)
(* Model of hack/cvo-unmanage.py: mark one workload (namespace, name) as   *)
(* unmanaged in the overrides list of clusterversion/version.              *)
(*                                                                         *)
(* The script is a single sequential flow                                  *)
(*   FETCH -> (unannotated -> APPLY_NOOP -> FETCH) -> MERGE                *)
(*         -> (modified -> apply) -> DONE                                  *)
(* The cluster (what "oc get" returns and "oc apply" stores) is the        *)
(* environment; its outcomes are nondeterministic choices.                 *)
(***************************************************************************)
EXTENDS Integers, Sequences, FiniteSets

(* ------------------------------ bounds --------------------------------- *)
\* longest overrides list held by the cluster at the start
MaxOverrides == 2
\* cap on the iterations of the "while True" fetch loop explored per run
MaxFetch == 3
\* number of consecutive invocations of the tool explored
MaxRuns == 2
\* longest overrides list at the start where the bootstrap loop's termination
\* is checked (the loop does not read the list)
MaxLoopOverrides == 1

(* ------------------------------ domains -------------------------------- *)
Namespaces == {"x", "y"}
Names == {"a", "b"}
\* 'unmanaged' of an entry: key absent, JSON false, JSON true
UnmanagedValues == {"absent", "false", "true"}
\* metadata.annotations of the document: no annotations at all, annotations
\* without the last-applied-configuration key, annotations with the key
AnnotationShapes == {"missing", "other", "lastapplied"}
\* spec of the document: no spec key, spec without overrides, spec.overrides
SpecShapes == {"missing", "nooverrides", "overrides"}
\* the rest of the document (status and every other top-level field), opaque
StatusValues == {"available"}

\* group and kind of an entry: a Deployment, or a resource of another kind
\* that may carry the same name in the same namespace
Kinds == {<<"apps/v1", "Deployment">>, <<"v1", "Service">>}

OverrideEntries ==
    {[group |-> k[1], kind |-> k[2], name |-> nm, namespace |-> ns, unmanaged |-> u] :
        k \in Kinds, nm \in Names, ns \in Namespaces, u \in UnmanagedValues}

RECURSIVE SeqsUpTo(_, _)
SeqsUpTo(S, n) ==
    IF n = 0 THEN {<<>>}
    ELSE LET shorter == SeqsUpTo(S, n - 1)
         IN  shorter \cup {Append(s, e) : s \in {t \in shorter : Len(t) = n - 1}, e \in S}

\* The documents the cluster can hold: a missing spec or a spec without
\* overrides carries no list.
Documents(maxLen) ==
    {[annotations |-> a, spec |-> "overrides", overrides |-> o, status |-> t] :
        a \in AnnotationShapes, o \in SeqsUpTo(OverrideEntries, maxLen),
        t \in StatusValues}
    \cup
    {[annotations |-> a, spec |-> s, overrides |-> <<>>, status |-> t] :
        a \in AnnotationShapes, s \in {"missing", "nooverrides"}, t \in StatusValues}

\* No document: the value of 'clusterversion' before the first json.loads
NoDoc == [annotations |-> "none", spec |-> "none", overrides |-> <<>>, status |-> "none"]

(* ------------------------- bytes and JSON ------------------------------ *)
\* What a pipe carries: a JSON text (of a document), nothing, or text that is
\* not JSON.
NoBytes == [fmt |-> "none", doc |-> NoDoc]
EmptyBytes == [fmt |-> "empty", doc |-> NoDoc]
GarbageBytes == [fmt |-> "garbage", doc |-> NoDoc]

json_dumps(doc) == [fmt |-> "json", doc |-> doc]

\* a parser that returns an empty document for text that is not JSON
json_loads_Lenient(bytes) ==
    IF bytes.fmt = "json" THEN [ok |-> TRUE, doc |-> bytes.doc]
    ELSE [ok |-> TRUE, doc |-> NoDoc]

\* json.loads raises on anything that is not JSON text
json_loads(bytes) ==
    IF bytes.fmt = "json" THEN [ok |-> TRUE, doc |-> bytes.doc]
    ELSE [ok |-> FALSE, doc |-> NoDoc]

(* --------------------------- pure helpers ------------------------------ *)
\* a test for a key the apply never writes
HasLastApplied_WrongKey(doc) == doc.annotations = "injected-elsewhere"

\* 'kubectl.kubernetes.io/last-applied-configuration' in annotations
HasLastApplied(doc) == doc.annotations = "lastapplied"

\* override.get('name') == name and override.get('namespace') == namespace
Matches(override, ns, nm) == override.name = nm /\ override.namespace = ns

\* not override.get('unmanaged')
Falsy(override) == override.unmanaged \in {"absent", "false"}

\* index of the entry at which the for loop breaks, 0 when it runs to its else
RECURSIVE FirstMatchFrom(_, _, _, _)
FirstMatchFrom(overrides, i, ns, nm) ==
    IF i > Len(overrides) THEN 0
    ELSE IF Matches(overrides[i], ns, nm) THEN i
    ELSE FirstMatchFrom(overrides, i + 1, ns, nm)

FirstMatch(overrides, ns, nm) == FirstMatchFrom(overrides, 1, ns, nm)

\* the appended entry with the API group written without its version
NewOverride_BareGroup(ns, nm) ==
    [group |-> "apps", kind |-> "Deployment", name |-> nm,
     namespace |-> ns, unmanaged |-> "true"]

\* lines 34-40: the entry appended by the else branch
NewOverride(ns, nm) ==
    [group |-> "apps/v1", kind |-> "Deployment", name |-> nm,
     namespace |-> ns, unmanaged |-> "true"]

\* merge that never looks for an existing entry: it always appends
merge_override_AlwaysAppend(doc, ns, nm) ==
    [doc |-> [doc EXCEPT !.spec = "overrides",
                         !.overrides = Append(doc.overrides, NewOverride(ns, nm))],
     modified |-> TRUE]

\* merge that records a modification without setting the field of the match
merge_override_NoFlip(doc, ns, nm) ==
    LET i == FirstMatch(doc.overrides, ns, nm)
        base == [doc EXCEPT !.spec = "overrides"]
    IN  IF i = 0
        THEN [doc |-> [base EXCEPT !.overrides = Append(doc.overrides, NewOverride(ns, nm))],
              modified |-> TRUE]
        ELSE [doc |-> base, modified |-> Falsy(doc.overrides[i])]

\* merge that overwrites the matched entry with a fresh Deployment entry
merge_override_Replace(doc, ns, nm) ==
    LET i == FirstMatch(doc.overrides, ns, nm)
        base == [doc EXCEPT !.spec = "overrides"]
    IN  IF i = 0
        THEN [doc |-> [base EXCEPT !.overrides = Append(doc.overrides, NewOverride(ns, nm))],
              modified |-> TRUE]
        ELSE IF Falsy(doc.overrides[i])
        THEN [doc |-> [base EXCEPT !.overrides[i] = NewOverride(ns, nm)],
              modified |-> TRUE]
        ELSE [doc |-> base, modified |-> FALSE]

\* lines 23-41: setdefault of spec and spec.overrides, then the for/else
merge_override(doc, ns, nm) ==
    LET overrides == doc.overrides
        i == FirstMatch(overrides, ns, nm)
        base == [doc EXCEPT !.spec = "overrides"]
    IN  IF i = 0
        THEN [doc |-> [base EXCEPT !.overrides = Append(overrides, NewOverride(ns, nm))],
              modified |-> TRUE]
        ELSE IF Falsy(overrides[i])
        THEN [doc |-> [base EXCEPT !.overrides[i].unmanaged = "true"],
              modified |-> TRUE]
        ELSE [doc |-> base, modified |-> FALSE]

(* ---------------------------- environment ------------------------------ *)
\* "oc get clusterversion/version -o json": the document, or a failed query
\* (no output, non-zero status), or output that is not JSON
FetchOutcomes == {"ok", "empty", "garbage"}
\* "oc apply -f -": stored (and annotated by the apply), or rejected
ApplyOutcomes == {"ok", "fail"}

FetchStdout(outcome, stored) ==
    IF outcome = "ok" THEN json_dumps(stored)
    ELSE IF outcome = "empty" THEN EmptyBytes
    ELSE GarbageBytes

FetchRc(outcome) == IF outcome = "empty" THEN 1 ELSE 0

\* what the cluster holds after "oc apply" of input
ApplyStore(outcome, input, stored) ==
    IF outcome = "ok"
    THEN [json_loads(input).doc EXCEPT !.annotations = "lastapplied"]
    ELSE stored

ApplyRc(outcome) == IF outcome = "ok" THEN 0 ELSE 1

(* ------------------------------- state --------------------------------- *)
VARIABLES
    namespace,      \* sys.argv[1]
    name,           \* sys.argv[2]
    cluster,        \* the document the cluster holds
    pc,             \* position of the script
    stdout,         \* proc.stdout of the last fetch
    clusterversion, \* the parsed document
    modified,       \* the modification flag
    lastApply,      \* kind and stdin of the last "oc apply" of this run
    lastRc,         \* return code of the last external command
    exitCode,       \* exit status of the process, -1 while it runs
    nFetch,         \* fetches of this run
    nNoop,          \* bootstrap applies of this run
    nFull,          \* full applies of this run
    run,            \* which invocation this is
    prev            \* the previous invocation: its final overrides, whether it
                    \* applied them and whether the cluster stored them

vars == <<namespace, name, cluster, pc, stdout, clusterversion, modified,
          lastApply, lastRc, exitCode, nFetch, nNoop, nFull, run, prev>>

NoApply == [kind |-> "none", input |-> NoBytes]
NoPrev == [overrides |-> <<>>, applied |-> FALSE, stored |-> FALSE]

InitWith(maxLen) ==
    /\ namespace \in Namespaces
    /\ name \in Names
    /\ cluster \in Documents(maxLen)
    /\ pc = "FETCH"
    /\ stdout = NoBytes
    /\ clusterversion = NoDoc
    /\ modified = FALSE
    /\ lastApply = NoApply
    /\ lastRc = 0
    /\ exitCode = -1
    /\ nFetch = 0
    /\ nNoop = 0
    /\ nFull = 0
    /\ run = 1
    /\ prev = NoPrev

Init == InitWith(MaxOverrides)

(* ------------------------------ actions -------------------------------- *)
\* a fetch that leaves the loop without testing the annotation
Fetch_NoAnnotationTest(outcomes) ==
    /\ pc = "FETCH"
    /\ nFetch < MaxFetch
    /\ \E outcome \in outcomes :
        LET out == FetchStdout(outcome, cluster)
            parsed == json_loads(out)
        IN  /\ stdout' = out
            /\ lastRc' = FetchRc(outcome)
            /\ nFetch' = nFetch + 1
            /\ IF ~parsed.ok
               THEN /\ pc' = "ERROR"
                    /\ exitCode' = 1
                    /\ UNCHANGED clusterversion
               ELSE /\ clusterversion' = parsed.doc
                    /\ pc' = "MERGE"
                    /\ UNCHANGED exitCode
    /\ UNCHANGED <<namespace, name, cluster, modified, lastApply, nNoop, nFull, run, prev>>

\* lines 12-18: run the query, parse its output, test the annotation
Fetch(outcomes) ==
    /\ pc = "FETCH"
    /\ nFetch < MaxFetch
    /\ \E outcome \in outcomes :
        LET out == FetchStdout(outcome, cluster)
            parsed == json_loads(out)
        IN  /\ stdout' = out
            /\ lastRc' = FetchRc(outcome)
            /\ nFetch' = nFetch + 1
            /\ IF ~parsed.ok
               THEN /\ pc' = "ERROR"
                    /\ exitCode' = 1
                    /\ UNCHANGED clusterversion
               ELSE /\ clusterversion' = parsed.doc
                    /\ pc' = IF HasLastApplied(parsed.doc) THEN "MERGE" ELSE "APPLY_NOOP"
                    /\ UNCHANGED exitCode
    /\ UNCHANGED <<namespace, name, cluster, modified, lastApply, nNoop, nFull, run, prev>>

\* line 21: apply the raw output of the fetch, then loop
ApplyNoop(outcomes) ==
    /\ pc = "APPLY_NOOP"
    /\ \E outcome \in outcomes :
        /\ cluster' = ApplyStore(outcome, stdout, cluster)
        /\ lastRc' = ApplyRc(outcome)
    /\ lastApply' = [kind |-> "noop", input |-> stdout]
    /\ nNoop' = nNoop + 1
    /\ pc' = "FETCH"
    /\ UNCHANGED <<namespace, name, stdout, clusterversion, modified, exitCode,
                   nFetch, nFull, run, prev>>

\* lines 23-41
Merge ==
    /\ pc = "MERGE"
    /\ LET m == merge_override(clusterversion, namespace, name)
       IN  /\ clusterversion' = m.doc
           /\ modified' = m.modified
    /\ pc' = "COMMIT"
    /\ UNCHANGED <<namespace, name, cluster, stdout, lastApply, lastRc, exitCode,
                   nFetch, nNoop, nFull, run, prev>>

\* an apply that is not conditioned on the modification flag
ApplyFull_Unconditional ==
    /\ pc = "COMMIT"
    /\ \E outcome \in ApplyOutcomes :
        /\ cluster' = ApplyStore(outcome, json_dumps(clusterversion), cluster)
        /\ lastRc' = ApplyRc(outcome)
    /\ lastApply' = [kind |-> "full", input |-> json_dumps(clusterversion)]
    /\ nFull' = nFull + 1
    /\ pc' = "DONE"
    /\ exitCode' = 0
    /\ UNCHANGED <<namespace, name, stdout, clusterversion, modified,
                   nFetch, nNoop, run, prev>>

\* lines 44-46, modified: apply the serialized document; the script then ends
ApplyFull ==
    /\ pc = "COMMIT"
    /\ modified
    /\ \E outcome \in ApplyOutcomes :
        /\ cluster' = ApplyStore(outcome, json_dumps(clusterversion), cluster)
        /\ lastRc' = ApplyRc(outcome)
    /\ lastApply' = [kind |-> "full", input |-> json_dumps(clusterversion)]
    /\ nFull' = nFull + 1
    /\ pc' = "DONE"
    /\ exitCode' = 0
    /\ UNCHANGED <<namespace, name, stdout, clusterversion, modified,
                   nFetch, nNoop, run, prev>>

\* line 44, not modified: the script ends
SkipApply ==
    /\ pc = "COMMIT"
    /\ ~modified
    /\ pc' = "DONE"
    /\ exitCode' = 0
    /\ UNCHANGED <<namespace, name, cluster, stdout, clusterversion, modified,
                   lastApply, lastRc, nFetch, nNoop, nFull, run, prev>>

\* the tool is invoked again with the same arguments
NextRun ==
    /\ pc = "DONE"
    /\ run < MaxRuns
    /\ run' = run + 1
    /\ prev' = [overrides |-> clusterversion.overrides,
                applied |-> (nFull > 0),
                stored |-> (nFull = 0 \/ lastRc = 0)]
    /\ pc' = "FETCH"
    /\ stdout' = NoBytes
    /\ clusterversion' = NoDoc
    /\ modified' = FALSE
    /\ lastApply' = NoApply
    /\ lastRc' = 0
    /\ exitCode' = -1
    /\ nFetch' = 0
    /\ nNoop' = 0
    /\ nFull' = 0
    /\ UNCHANGED <<namespace, name, cluster>>

Next ==
    \/ Fetch(FetchOutcomes)
    \/ ApplyNoop(ApplyOutcomes)
    \/ Merge
    \/ ApplyFull
    \/ SkipApply
    \/ NextRun

Spec == Init /\ [][Next]_vars

\* The environment in which the bootstrap apply does what line 20 expects of
\* it: it stores the document with the annotation, and the fetches after it
\* return that document. The script's steps are sequential and each blocks
\* until its command returns, so a step that can be taken is taken.
NextInjects ==
    \/ Fetch(IF nNoop > 0 THEN {"ok"} ELSE FetchOutcomes)
    \/ ApplyNoop({"ok"})
    \/ Merge
    \/ ApplyFull
    \/ SkipApply
    \/ NextRun

InitInjects == InitWith(MaxLoopOverrides)

SpecInjects == InitInjects /\ [][NextInjects]_vars /\ WF_vars(NextInjects)


(* ------------------------- notions of the claims ----------------------- *)
\* the document returned by the last fetch
Fetched == stdout.doc

\* the script is past the merge of this run
Merged == pc \in {"COMMIT", "DONE"}

\* positions of the entries for (ns, nm) in a list
MatchingAt(list, ns, nm) ==
    {i \in 1..Len(list) : list[i].name = nm /\ list[i].namespace = ns}

\* positions of the entries for (ns, nm) that are unmanaged
UnmanagedAt(list, ns, nm) ==
    {i \in MatchingAt(list, ns, nm) : list[i].unmanaged = "true"}

Min(S) == CHOOSE i \in S : \A j \in S : i <= j

(* -------------------------------- C1 ----------------------------------- *)
\* C1 (as stated): when a run reaches DONE, the overrides list of its
\* document holds exactly one entry for (namespace, name) with unmanaged true,
\* whatever list the last fetch returned.
C1_ExactlyOneUnmanaged ==
    pc = "DONE" =>
        Cardinality(UnmanagedAt(clusterversion.overrides, namespace, name)) = 1

\* C1 (amended): when a run reaches DONE, the first entry for (namespace, name)
\* in the overrides list exists and has unmanaged true; and when the list of
\* the last fetch held at most one entry for the pair, the list holds exactly
\* one entry for the pair.
C1_FirstMatchUnmanaged ==
    pc = "DONE" =>
        LET list == clusterversion.overrides
            at == MatchingAt(list, namespace, name)
        IN  /\ at # {}
            /\ list[Min(at)].unmanaged = "true"
            /\ Cardinality(MatchingAt(Fetched.overrides, namespace, name)) <= 1
                  => /\ Cardinality(at) = 1
                     /\ Cardinality(UnmanagedAt(list, namespace, name)) = 1

\* a run is DONE on a full list that held one entry for the pair, unmanaged false
C1_Witness ==
    /\ pc = "DONE"
    /\ Len(Fetched.overrides) = MaxOverrides
    /\ Cardinality(MatchingAt(Fetched.overrides, namespace, name)) = 1
    /\ UnmanagedAt(Fetched.overrides, namespace, name) = {}

(* -------------------------------- C2 ----------------------------------- *)
\* C2: a run that follows a run with the same arguments, on a cluster that
\* stores what that run applied, ends with the overrides list the earlier run
\* ended with, with the modification flag false and without a full apply.
C2_SecondRunChangesNothing ==
    (run > 1 /\ pc = "DONE" /\ prev.stored) =>
        /\ clusterversion.overrides = prev.overrides
        /\ ~modified
        /\ nFull = 0

\* the second run is DONE after a first run whose apply the cluster stored
C2_Witness ==
    /\ run = 2
    /\ pc = "DONE"
    /\ prev.applied
    /\ prev.stored

(* -------------------------------- C3 ----------------------------------- *)
\* C3 (as stated): if the fetched list holds an entry for (namespace, name)
\* whose unmanaged is false or absent, then after the merge that entry has
\* unmanaged true, the flag is set and the list has the length it had.
C3_AnyFalsyMatchFlipped ==
    Merged =>
        \A i \in MatchingAt(Fetched.overrides, namespace, name) :
            Fetched.overrides[i].unmanaged \in {"absent", "false"} =>
                /\ Len(clusterversion.overrides) = Len(Fetched.overrides)
                /\ clusterversion.overrides[i].unmanaged = "true"
                /\ modified

\* C3 (amended): if the first entry of the fetched list for (namespace, name)
\* has unmanaged false or absent, then after the merge that entry has
\* unmanaged true, the flag is set, and the list has the length it had.
C3_FirstFalsyMatchFlipped ==
    Merged =>
        LET at == MatchingAt(Fetched.overrides, namespace, name)
        IN  (at # {} /\ Fetched.overrides[Min(at)].unmanaged \in {"absent", "false"}) =>
                /\ Len(clusterversion.overrides) = Len(Fetched.overrides)
                /\ clusterversion.overrides[Min(at)].unmanaged = "true"
                /\ modified

\* the merge has run on a list whose first entry for the pair lacked the
\* unmanaged key, with another entry in front of it
C3_Witness ==
    /\ pc = "COMMIT"
    /\ MatchingAt(Fetched.overrides, namespace, name) # {}
    /\ Min(MatchingAt(Fetched.overrides, namespace, name)) > 1
    /\ Fetched.overrides[Min(MatchingAt(Fetched.overrides, namespace, name))].unmanaged = "absent"

(* -------------------------------- C4 ----------------------------------- *)
\* C4: if no entry of the fetched list is for (namespace, name), also when the
\* document has no spec or no spec.overrides, then after the merge the list is
\* one longer, its last entry is {group: "apps/v1", kind: "Deployment", name,
\* namespace, unmanaged: true}, and the flag is set.
C4_AppendedWhenAbsent ==
    (Merged /\ MatchingAt(Fetched.overrides, namespace, name) = {}) =>
        /\ Len(clusterversion.overrides) = Len(Fetched.overrides) + 1
        /\ clusterversion.overrides[Len(clusterversion.overrides)] =
              [group |-> "apps/v1", kind |-> "Deployment", name |-> name,
               namespace |-> namespace, unmanaged |-> "true"]
        /\ clusterversion.spec = "overrides"
        /\ modified

\* the merge has run on a fetched document without a spec
C4_Witness ==
    /\ pc = "COMMIT"
    /\ Fetched.spec = "missing"
    /\ Len(clusterversion.overrides) = 1

(* -------------------------------- C5 ----------------------------------- *)
\* C5: a fetch that returns a document without the annotation is followed by
\* an apply of exactly the bytes of that fetch and then by a fetch; the merge
\* is entered only on an annotated document, the one of the latest fetch.
C5_BootstrapOrdering ==
    /\ [](pc = "MERGE" =>
            /\ clusterversion.annotations = "lastapplied"
            /\ stdout = [fmt |-> "json", doc |-> clusterversion]
            /\ clusterversion = cluster)
    /\ [](pc = "APPLY_NOOP" =>
            /\ stdout.fmt = "json"
            /\ stdout.doc.annotations # "lastapplied")
    /\ [][(pc = "FETCH" /\ stdout'.fmt = "json" /\ stdout'.doc.annotations # "lastapplied")
             => pc' = "APPLY_NOOP"]_vars
    /\ [][pc = "APPLY_NOOP" =>
             /\ pc' = "FETCH"
             /\ lastApply' = [kind |-> "noop", input |-> stdout]
             /\ stdout' = stdout
             /\ nNoop' = nNoop + 1]_vars
    /\ [][pc' = "MERGE" => pc = "FETCH"]_vars

\* the merge is entered after a bootstrap apply
C5_Witness ==
    /\ pc = "MERGE"
    /\ nNoop = 1
    /\ lastApply.kind = "noop"
    /\ lastApply.input.doc.annotations = "missing"
(* -------------------------------- C6 ----------------------------------- *)
\* C6: in a run the full apply, carrying the serialized merged document, is
\* issued exactly when the modification flag is set, at most once, after the
\* merge and on the way to DONE; a run whose flag is not set reaches DONE
\* without an apply after its last fetch.
C6_CommitIffModified ==
    /\ [](nFull <= 1)
    /\ [](pc = "DONE" => (nFull = 1 <=> modified))
    /\ [](nFull = 1 =>
            /\ pc = "DONE"
            /\ lastApply = [kind |-> "full",
                            input |-> [fmt |-> "json", doc |-> clusterversion]])
    /\ [][nFull' > nFull => (pc = "COMMIT" /\ pc' = "DONE" /\ modified)]_vars
    /\ [][(pc \in {"MERGE", "COMMIT"} /\ ~modified') =>
             (lastApply' = lastApply /\ cluster' = cluster /\ nNoop' = nNoop)]_vars
    /\ [][(pc = "COMMIT" /\ modified) => nFull' = nFull + 1]_vars

\* a run is DONE after its one full apply, which followed a bootstrap apply
C6_Witness ==
    /\ pc = "DONE"
    /\ modified
    /\ nFull = 1
    /\ nNoop = 1

(* -------------------------------- C7 ----------------------------------- *)
\* C7: the exit status of the process surfaces the status of the last external
\* command: it is non-zero whenever that command returned non-zero, and 0 only
\* when that command succeeded.
C7_ExitCodeSurfacesApply ==
    pc \in {"DONE", "ERROR"} =>
        /\ lastRc # 0 => exitCode # 0
        /\ exitCode = 0 => lastRc = 0

(* -------------------------------- C8 ----------------------------------- *)
\* C8: a fetch whose output is not JSON (the empty output of a failed query
\* included) ends the run at that fetch in the error state with a non-zero
\* status; no apply follows it and no merge is performed.
C8_UnparseableFetchIsFatal ==
    /\ [][(pc = "FETCH" /\ stdout'.fmt # "json") =>
             /\ pc' = "ERROR"
             /\ exitCode' = 1
             /\ cluster' = cluster
             /\ lastApply' = lastApply
             /\ clusterversion' = clusterversion
             /\ modified' = modified]_vars
    /\ [][pc # "ERROR"]_vars
    /\ [](pc = "ERROR" =>
            /\ stdout.fmt \in {"empty", "garbage"}
            /\ exitCode = 1
            /\ ~modified
            /\ nFull = 0
            /\ nNoop = nFetch - 1)
    /\ [](pc \in {"APPLY_NOOP", "MERGE", "COMMIT", "DONE"} => stdout.fmt = "json")

\* the query failed at the second fetch, after a bootstrap apply
C8_Witness ==
    /\ pc = "ERROR"
    /\ stdout = EmptyBytes
    /\ lastRc # 0
    /\ nFetch = 2
    /\ nNoop = 1

C10_MergeFrame ==
    (pc = "DONE" /\ nFull = 1) =>
        LET old == Fetched
            new == lastApply.input.doc
        IN  /\ lastApply.input.fmt = "json"
            /\ new.annotations = old.annotations
            /\ new.status = old.status
            /\ \/ \E i \in MatchingAt(old.overrides, namespace, name) :
                     new.overrides = [old.overrides EXCEPT ![i].unmanaged = "true"]
               \/ /\ Len(new.overrides) = Len(old.overrides) + 1
                  /\ SubSeq(new.overrides, 1, Len(old.overrides)) = old.overrides
                  /\ new.overrides[Len(new.overrides)].name = name
                  /\ new.overrides[Len(new.overrides)].namespace = namespace

\* a full apply was issued for a list in which an entry of another kind than
\* Deployment was the one for the pair, behind another entry
C10_Witness ==
    /\ pc = "DONE"
    /\ nFull = 1
    /\ Len(Fetched.overrides) = MaxOverrides
    /\ \E i \in MatchingAt(Fetched.overrides, namespace, name) :
          /\ i > 1
          /\ Fetched.overrides[i].kind = "Service"
          /\ lastApply.input.doc.overrides[i].kind = "Service"
          /\ lastApply.input.doc.overrides[i].unmanaged = "true"
          /\ Fetched.overrides[i].unmanaged = "false"
====
